---------------------------- MODULE Spec2Model ----------------------------
(***************************************************************************)
(* Model of the backtesting engine of btc-fng-backtester                   *)
(* (src/backtester.py): run_backtest, calculate_yearly_metrics,            *)
(* run_multi_start_analysis and optimize_thresholds, called by a client    *)
(* (src/app.py) on one caller-owned DataFrame.                             *)
(*                                                                         *)
(* Numbers.  Python floats are modelled by exact rationals <<n, d>> in     *)
(* lowest terms with d > 0, so that a/b*b = a exactly; round(x, 2) is      *)
(* modelled as rounding to a multiple of 1/100.  Prices are positive.      *)
(*                                                                         *)
(* Tables.  A pandas DataFrame is a record [columns, rows]: the set of     *)
(* its column names and the sequence of its rows, each row a record.       *)
(* pd.DataFrame([]) has no rows AND no columns; reading a column that is   *)
(* not there raises KeyError.                                              *)
(*                                                                         *)
(* Calls.  The outcome of a call is [status, exc, value]: status is        *)
(* "not_called", "returned" or "raised".                                   *)
(***************************************************************************)
EXTENDS Integers, Sequences, FiniteSets, TLC

VARIABLES
    df,               \* the caller-owned input table (app.py:80)
    initial_capital,  \* app.py:61
    buy_threshold,    \* app.py:62
    sell_threshold,   \* app.py:63
    stats_df,         \* outcome of run_backtest: the daily snapshots
    trades_df,        \* outcome of run_backtest: the trade log
    yearly_df,        \* outcome of calculate_yearly_metrics(stats_df)
    multi_start_df,   \* outcome of run_multi_start_analysis(df, ...)
    opt_df            \* outcome of optimize_thresholds(df, ...)

vars == <<df, initial_capital, buy_threshold, sell_threshold,
          stats_df, trades_df, yearly_df, multi_start_df, opt_df>>

---------------------------------------------------------------------------
(* Bounds of the model *)

\* longest input series
MaxLen == 3

\* calendar dates <<year, day of year>> the input series draws from
Dates == {<<2018, 100>>, <<2018, 365>>, <<2019, 1>>, <<2019, 200>>}

\* closing prices
Prices == {90, 110}

\* sentiment values: fear, greed, extreme greed
FngValues == {30, 80, 95}

\* initial capital: the degenerate 0 and a positive one
Capitals == {0, 1000}

\* <<buy_threshold, sell_threshold>>: the defaults, and a pair with buy >= sell
Thresholds == {<<50, 90>>, <<90, 50>>}

---------------------------------------------------------------------------
(* Float arithmetic, as exact rationals *)

RECURSIVE GCD(_, _)
GCD(a, b) == IF b = 0 THEN a ELSE GCD(b, a % b)

Abs(n) == IF n < 0 THEN -n ELSE n

\* the rational n/d (d # 0) in lowest terms, denominator positive
Rat(n, d) ==
    LET g == GCD(Abs(n), Abs(d))
        s == IF d < 0 THEN -1 ELSE 1
    IN  <<(s * n) \div g, (s * d) \div g>>

Float(n) == <<n, 1>>

Zero == Float(0)

RAdd(x, y) == Rat(x[1] * y[2] + y[1] * x[2], x[2] * y[2])

RSub(x, y) == Rat(x[1] * y[2] - y[1] * x[2], x[2] * y[2])

RMul(x, y) == Rat(x[1] * y[1], x[2] * y[2])

\* x / y for y # 0 (Python raises ZeroDivisionError for y = 0: the callers test)
RDiv(x, y) == Rat(x[1] * y[2], x[2] * y[1])

RLt(x, y) == x[1] * y[2] < y[1] * x[2]

RGt(x, y) == RLt(y, x)

\* round(x, 2): the nearest multiple of 1/100, a tie going to the even one
Round2(x) ==
    LET n == x[1] * 100
        d == x[2]
        q == n \div d
        r == n - q * d
        k == IF 2 * r < d THEN q
             ELSE IF 2 * r > d THEN q + 1
             ELSE IF q % 2 = 0 THEN q ELSE q + 1
    IN  Rat(k, 100)

---------------------------------------------------------------------------
(* Dates *)

\* days before January 1st of year y (proleptic Gregorian, as datetime.date)
DaysBeforeYear(y) ==
    LET p == y - 1 IN 365 * p + (p \div 4) - (p \div 100) + (p \div 400)

\* date.toordinal(): what dates are ordered and subtracted by
Ordinal(date) == DaysBeforeYear(date[1]) + date[2]

\* pd.to_datetime(date).dt.year
Year(date) == date[1]

---------------------------------------------------------------------------
(* DataFrames *)

\* pd.DataFrame(list_of_dicts): no columns at all when the list is empty
DataFrame(list) ==
    [columns |-> IF list = <<>> THEN {} ELSE DOMAIN list[1], rows |-> list]

EmptyFrame == DataFrame(<<>>)

InputColumns == {"date", "price", "fng_value"}

\* frame['year'] = pd.to_datetime(frame['date']).dt.year, in place
WithYear(frame) ==
    [columns |-> frame.columns \cup {"year"},
     rows |-> [i \in DOMAIN frame.rows |->
                 [c \in DOMAIN frame.rows[i] \cup {"year"} |->
                     IF c = "year" THEN Year(frame.rows[i].date)
                     ELSE frame.rows[i][c]]]]

\* insertion of row r into a date-sorted sequence, after the rows of equal date
RECURSIVE InsertByDate(_, _)
InsertByDate(sorted, r) ==
    IF sorted = <<>> THEN <<r>>
    ELSE IF Ordinal(r.date) < Ordinal(Head(sorted).date)
         THEN <<r>> \o sorted
         ELSE <<Head(sorted)>> \o InsertByDate(Tail(sorted), r)

\* (mutant) no sort: the rows in the caller's order
SortValuesKeepsOrder(rows) == rows

\* df.sort_values('date').copy(): a new, date-ascending sequence of the rows
RECURSIVE SortValues(_)
SortValues(rows) ==
    IF rows = <<>> THEN <<>>
    ELSE InsertByDate(SortValues(SubSeq(rows, 1, Len(rows) - 1)), rows[Len(rows)])

\* the elements of a finite set of integers in ascending order
RECURSIVE SortedSeq(_)
SortedSeq(S) ==
    IF S = {} THEN <<>>
    ELSE LET m == CHOOSE x \in S : \A y \in S : x <= y
         IN  <<m>> \o SortedSeq(S \ {m})

\* the year keys of a frame that has a 'year' column, ascending
\* (sorted(df['year'].unique()), and the key order of groupby('year'))
YearsOf(rows) == SortedSeq({rows[i].year : i \in DOMAIN rows})

---------------------------------------------------------------------------
(* Call outcomes *)

NotCalled == [status |-> "not_called", exc |-> "", value |-> EmptyFrame]

Returned(frame) == [status |-> "returned", exc |-> "", value |-> frame]

Raised(e) == [status |-> "raised", exc |-> e, value |-> EmptyFrame]

---------------------------------------------------------------------------
(* run_backtest *)

\* (mutant) the SELL branch without its btc_balance > 0 gate
DecideUngated(fng_value, usd_balance, btc_balance, buy, sell) ==
    IF fng_value <= buy /\ RGt(usd_balance, Zero) THEN "Buy"
    ELSE IF fng_value >= sell THEN "Sell"
    ELSE "Hold"

\* the strategy's choice for one day, from the balances carried into the day
Decide(fng_value, usd_balance, btc_balance, buy, sell) ==
    IF fng_value <= buy /\ RGt(usd_balance, Zero) THEN "Buy"
    ELSE IF fng_value >= sell /\ RGt(btc_balance, Zero) THEN "Sell"
    ELSE "Hold"

\* (mutant) a BUY that does not zero usd_balance
BuyKeepsUsd(usd_balance, btc_balance, current_price) ==
    [usd |-> usd_balance, btc |-> RDiv(usd_balance, Float(current_price))]

\* the balances after a BUY at current_price
BuyBalances(usd_balance, btc_balance, current_price) ==
    [usd |-> Zero, btc |-> RDiv(usd_balance, Float(current_price))]

\* the balances after a SELL at current_price
SellBalances(usd_balance, btc_balance, current_price) ==
    [usd |-> RMul(btc_balance, Float(current_price)), btc |-> Zero]

\* the trade record appended on a BUY or a SELL (old balances in, new balances out)
TradeRecord(row, action, old, new) ==
    [date |-> row.date,
     action |-> IF action = "Buy" THEN "BUY" ELSE "SELL",
     price |-> row.price,
     fng |-> row.fng_value,
     amount_usd |-> IF action = "Buy" THEN old.usd ELSE new.usd,
     amount_btc |-> IF action = "Buy" THEN new.btc ELSE old.btc]

\* (mutant) equity without the price: usd_balance + btc_balance
DailyStatNoPrice(row, usd_balance, btc_balance, action) ==
    [date |-> row.date,
     price |-> row.price,
     fng_value |-> row.fng_value,
     equity |-> RAdd(usd_balance, btc_balance),
     btc_held |-> btc_balance,
     usd_balance |-> usd_balance,
     action |-> action]

\* the daily snapshot, from the balances after the day's action
DailyStat(row, usd_balance, btc_balance, action) ==
    [date |-> row.date,
     price |-> row.price,
     fng_value |-> row.fng_value,
     equity |-> RAdd(usd_balance, RMul(btc_balance, Float(row.price))),
     btc_held |-> btc_balance,
     usd_balance |-> usd_balance,
     action |-> action]

\* one iteration of the loop over the rows
LoopBody(s, row, buy, sell) ==
    LET action == Decide(row.fng_value, s.usd, s.btc, buy, sell)
        old == [usd |-> s.usd, btc |-> s.btc]
        new == IF action = "Buy" THEN BuyBalances(s.usd, s.btc, row.price)
               ELSE IF action = "Sell" THEN SellBalances(s.usd, s.btc, row.price)
               ELSE old
    IN  [usd |-> new.usd,
         btc |-> new.btc,
         trades |-> IF action = "Hold" THEN s.trades
                    ELSE Append(s.trades, TradeRecord(row, action, old, new)),
         daily_stats |-> Append(s.daily_stats,
                                DailyStat(row, new.usd, new.btc, action))]

RECURSIVE Loop(_, _, _, _)
Loop(s, rows, buy, sell) ==
    IF rows = <<>> THEN s
    ELSE Loop(LoopBody(s, Head(rows), buy, sell), Tail(rows), buy, sell)

\* run_backtest(frame, capital, buy, sell): <<stats_df, trades_df>>
run_backtest(frame, capital, buy, sell) ==
    LET s0 == [usd |-> Float(capital), btc |-> Zero,
               trades |-> <<>>, daily_stats |-> <<>>]
        s == Loop(s0, SortValues(frame.rows), buy, sell)
    IN  <<DataFrame(s.daily_stats), DataFrame(s.trades)>>

---------------------------------------------------------------------------
(* The inputs *)

\* the series a caller can pass: distinct dates, any order
Points == [date : Dates, price : Prices, fng_value : FngValues]

Series ==
    {s \in UNION {[1..n -> Points] : n \in 0..MaxLen} :
        \A i, j \in DOMAIN s : i # j => s[i].date # s[j].date}

\* the series the data layer delivers: get_merged_data sorts by date
SortedSeries == {s \in Series : SortValues(s) = s}

\* the state before any call, on a series from S
Start(S) ==
    /\ \E s \in S : df = [columns |-> InputColumns, rows |-> s]
    /\ initial_capital \in Capitals
    /\ \E t \in Thresholds : buy_threshold = t[1] /\ sell_threshold = t[2]
    /\ stats_df = NotCalled
    /\ trades_df = NotCalled
    /\ yearly_df = NotCalled
    /\ multi_start_df = NotCalled
    /\ opt_df = NotCalled

\* the client's state before its calls: df = get_merged_data()
Init == Start(SortedSeries)

\* any caller of run_backtest: the rows in any order
InitAnyOrder == Start(Series)

\* stats_df, trades_df = run_backtest(df, initial_capital, buy, sell)
RunBacktest ==
    /\ stats_df.status = "not_called"
    /\ LET r == run_backtest(df, initial_capital, buy_threshold, sell_threshold)
       IN  /\ stats_df' = Returned(r[1])
           /\ trades_df' = Returned(r[2])
    /\ UNCHANGED <<df, initial_capital, buy_threshold, sell_threshold,
                   yearly_df, multi_start_df, opt_df>>

---------------------------------------------------------------------------
(* calculate_yearly_metrics *)

\* frame['year'] = ...frame['date']...: KeyError, and no new column, when the
\* frame has no 'date' column; otherwise the frame itself gets the column
AssignYear(frame) ==
    IF "date" \in frame.columns THEN WithYear(frame) ELSE frame

\* the rows of one year, in the frame's row order (one group of groupby('year'))
RECURSIVE GroupOf(_, _)
GroupOf(rows, year) ==
    IF rows = <<>> THEN <<>>
    ELSE (IF Head(rows).year = year THEN <<Head(rows)>> ELSE <<>>)
         \o GroupOf(Tail(rows), year)

\* the number of rows of a group whose action is not 'Hold'
TradesCount(group) ==
    Cardinality({i \in DOMAIN group : group[i].action # "Hold"})

\* the row appended for one year-group whose start equity is not zero
YearlyMetric(year, group) ==
    LET start_equity == group[1].equity
        end_equity == group[Len(group)].equity
        roi == RMul(RDiv(RSub(end_equity, start_equity), start_equity), Float(100))
    IN  [year |-> year,                                     \* 'Year'
         starting_equity |-> Round2(start_equity),          \* 'Starting Equity'
         ending_equity |-> Round2(end_equity),              \* 'Ending Equity'
         profit_loss |-> Round2(RSub(end_equity, start_equity)),  \* 'Profit/Loss'
         roi |-> Round2(roi),                               \* 'ROI (%)'
         trades |-> TradesCount(group)]                     \* 'Trades'

\* calculate_yearly_metrics(frame): the outcome (the frame becomes AssignYear(frame))
calculate_yearly_metrics(frame) ==
    IF "date" \notin frame.columns THEN Raised("KeyError")
    ELSE LET rows == AssignYear(frame).rows
             years == YearsOf(rows)
         IN  IF \E i \in DOMAIN years : GroupOf(rows, years[i])[1].equity = Zero
             THEN Raised("ZeroDivisionError")
             ELSE Returned(DataFrame(
                     [i \in DOMAIN years |->
                         YearlyMetric(years[i], GroupOf(rows, years[i]))]))

---------------------------------------------------------------------------
(* run_multi_start_analysis *)

\* the sub-series df[df['year'] >= start_year].copy()
RECURSIVE RowsFrom(_, _)
RowsFrom(rows, start_year) ==
    IF rows = <<>> THEN <<>>
    ELSE (IF Head(rows).year >= start_year THEN <<Head(rows)>> ELSE <<>>)
         \o RowsFrom(Tail(rows), start_year)

SubsetFrom(frame, start_year) ==
    [columns |-> frame.columns, rows |-> RowsFrom(frame.rows, start_year)]

\* the column label of an origin year
Desde(start_year) == "Desde " \o ToString(start_year)

\* what one origin year's iteration raises, "" when it appends its row
OriginRaises(frame, start_year, capital, buy, sell) ==
    LET r == run_backtest(SubsetFrom(frame, start_year), capital, buy, sell)
    IN  IF capital = 0 THEN "ZeroDivisionError"
        ELSE IF "action" \notin r[2].columns THEN "KeyError"
        ELSE ""

\* the row one origin year's iteration appends (when it does not raise)
OriginResult(frame, start_year, capital, buy, sell) ==
    LET r == run_backtest(SubsetFrom(frame, start_year), capital, buy, sell)
        stats == r[1].rows
        trades == r[2].rows
        final_equity == stats[Len(stats)].equity
        benefit == RSub(final_equity, Float(capital))
        total_roi == RMul(RDiv(benefit, Float(capital)), Float(100))
        days == Ordinal(stats[Len(stats)].date) - Ordinal(stats[1].date)
        num_years == Rat(days * 100, 36525)
        num_ops == Len(trades)
    IN  [start_year |-> start_year,          \* the row's label, 'Desde <year>'
         capital_invertido |-> Float(capital),
         beneficio |-> benefit,
         beneficio_anual |->
             IF RGt(num_years, Zero) THEN RDiv(benefit, num_years) ELSE benefit,
         pct_total |-> total_roi,
         pct_anual |->
             IF RGt(num_years, Zero) THEN RDiv(total_roi, num_years) ELSE total_roi,
         n_operaciones |-> num_ops,
         pct_profit |-> IF num_ops > 0 THEN Float(100) ELSE Zero,
         op_positivas |->
             Cardinality({i \in DOMAIN trades : trades[i].action = "SELL"}),
         op_negativas |-> 0,
         tiempo |-> num_years]

\* the returned table: one column per origin year, labelled 'Desde <year>', in
\* the order of start_years; rows[i] holds the cells of the i-th column
Transposed(results, years_cols) ==
    [columns |-> {years_cols[i] : i \in DOMAIN years_cols},
     labels |-> years_cols,
     rows |-> results]

\* run_multi_start_analysis(frame, ...): the outcome (frame becomes AssignYear(frame))
run_multi_start_analysis(frame, capital, buy, sell) ==
    IF "date" \notin frame.columns THEN Raised("KeyError")
    ELSE LET f == AssignYear(frame)
             start_years == YearsOf(f.rows)
             raising == {i \in DOMAIN start_years :
                            OriginRaises(f, start_years[i], capital, buy, sell) # ""}
         IN  IF raising # {}
             THEN LET first == CHOOSE i \in raising : \A j \in raising : i <= j
                  IN  Raised(OriginRaises(f, start_years[first], capital, buy, sell))
             ELSE Returned(Transposed(
                     [i \in DOMAIN start_years |->
                         OriginResult(f, start_years[i], capital, buy, sell)],
                     [i \in DOMAIN start_years |-> Desde(start_years[i])]))

---------------------------------------------------------------------------
(* optimize_thresholds *)

buy_ranges == <<10, 20, 30, 40, 50, 60>>

sell_ranges == <<70, 80, 90, 95>>

\* the (b, s) pairs in the order the nested loops visit them
Grid ==
    [k \in 1..(Len(buy_ranges) * Len(sell_ranges)) |->
        <<buy_ranges[((k - 1) \div Len(sell_ranges)) + 1],
          sell_ranges[((k - 1) % Len(sell_ranges)) + 1]>>]

\* the ROI of a run with snapshots stats (capital # 0, stats not empty)
CellROI(stats, capital) ==
    RMul(RDiv(RSub(stats[Len(stats)].equity, Float(capital)), Float(capital)),
         Float(100))

\* one group of df.groupby('year'), as a frame
YearGroup(frame, year) ==
    [columns |-> frame.columns, rows |-> GroupOf(frame.rows, year)]

\* roi > best_roi, where best_roi starts as -inf
Improves(roi, best) == best.neg_inf \/ RGt(roi, best.roi)

\* the body of the inner loop: best after the cell (b, s) has been tried
TryCell(best, group, capital, b, s) ==
    LET stats == run_backtest(group, capital, b, s)[1].rows
    IN  IF stats = <<>> THEN best
        ELSE LET roi == CellROI(stats, capital)
             IN  IF Improves(roi, best)
                 THEN [neg_inf |-> FALSE, roi |-> roi, b |-> b, s |-> s]
                 ELSE best

\* the two nested loops, from cell k on
RECURSIVE GridSearch(_, _, _, _)
GridSearch(best, k, group, capital) ==
    IF k > Len(Grid) THEN best
    ELSE GridSearch(TryCell(best, group, capital, Grid[k][1], Grid[k][2]),
                    k + 1, group, capital)

\* the row appended for one year (round(-inf, 2) is -inf)
BestParams(year, best) ==
    [year |-> year,                      \* 'Year'
     best_buy_threshold |-> best.b,      \* 'Best Buy Threshold'
     best_sell_threshold |-> best.s,     \* 'Best Sell Threshold'
     max_roi |-> IF best.neg_inf THEN <<-1, 0>> ELSE Round2(best.roi)]  \* 'Max ROI (%)'

\* optimize_thresholds(frame, capital): the outcome (frame becomes AssignYear(frame))
optimize_thresholds(frame, capital) ==
    IF "date" \notin frame.columns THEN Raised("KeyError")
    ELSE LET f == AssignYear(frame)
             years == YearsOf(f.rows)
             best0 == [neg_inf |-> TRUE, roi |-> Zero, b |-> 50, s |-> 90]
         IN  IF years # <<>> /\ capital = 0 THEN Raised("ZeroDivisionError")
             ELSE Returned(DataFrame(
                     [i \in DOMAIN years |->
                         BestParams(years[i], GridSearch(best0, 1, YearGroup(f, years[i]), capital))]))

---------------------------------------------------------------------------
(* The client's calls *)

\* yearly_df = calculate_yearly_metrics(stats_df)
CalculateYearlyMetrics ==
    /\ stats_df.status = "returned"
    /\ yearly_df.status = "not_called"
    /\ yearly_df' = calculate_yearly_metrics(stats_df.value)
    /\ stats_df' = [stats_df EXCEPT !.value = AssignYear(stats_df.value)]
    /\ UNCHANGED <<df, initial_capital, buy_threshold, sell_threshold,
                   trades_df, multi_start_df, opt_df>>

\* multi_start_df = run_multi_start_analysis(df, initial_capital, buy, sell)
RunMultiStartAnalysis ==
    /\ multi_start_df.status = "not_called"
    /\ multi_start_df' = run_multi_start_analysis(df, initial_capital,
                                                  buy_threshold, sell_threshold)
    /\ df' = AssignYear(df)
    /\ UNCHANGED <<initial_capital, buy_threshold, sell_threshold,
                   stats_df, trades_df, yearly_df, opt_df>>

\* opt_df = optimize_thresholds(df, initial_capital)
OptimizeThresholds ==
    /\ opt_df.status = "not_called"
    /\ opt_df' = optimize_thresholds(df, initial_capital)
    /\ df' = AssignYear(df)
    /\ UNCHANGED <<initial_capital, buy_threshold, sell_threshold,
                   stats_df, trades_df, yearly_df, multi_start_df>>

Next ==
    \/ RunBacktest
    \/ CalculateYearlyMetrics
    \/ RunMultiStartAnalysis
    \/ OptimizeThresholds

\* the four functions, each called once, in any order, on the client's table
Spec == Init /\ [][Next]_vars

\* run_backtest alone, on a series in any row order
SpecBacktest == InitAnyOrder /\ [][RunBacktest]_vars

---------------------------------------------------------------------------
(* Properties of run_backtest (checked under SpecBacktest) *)

\* the snapshots and the trade log of the run, once run_backtest has returned
Snapshots == stats_df.value.rows

TradeLog == trades_df.value.rows

Ran == stats_df.status = "returned"

\* the index of the first snapshot whose action is a trade (0: no trade)
FirstTradeDay ==
    IF \E i \in DOMAIN Snapshots : Snapshots[i].action # "Hold"
    THEN CHOOSE i \in DOMAIN Snapshots :
            /\ Snapshots[i].action # "Hold"
            /\ \A j \in 1..(i - 1) : Snapshots[j].action = "Hold"
    ELSE 0

\* C1: every daily snapshot has equity = usd_balance + btc_held * price, on the
\* balances of that same snapshot, which are those after the day's action (a
\* BUY day holds no USD, a SELL day holds no BTC).
EquityInvariant ==
    Ran => \A i \in DOMAIN Snapshots :
        LET r == Snapshots[i]
        IN  /\ r.equity[1] * r.usd_balance[2] * r.btc_held[2]
                 = r.equity[2] * (r.usd_balance[1] * r.btc_held[2]
                                  + r.btc_held[1] * r.price * r.usd_balance[2])
            /\ r.action = "Buy" => r.usd_balance = Zero
            /\ r.action = "Sell" => r.btc_held = Zero

\* a run that holds BTC on a day whose price is not the price it bought at
EquityWitness ==
    /\ Ran
    /\ \E i \in DOMAIN Snapshots :
          /\ Snapshots[i].btc_held # Zero
          /\ Snapshots[i].action = "Hold"
          /\ Snapshots[i].equity # Float(initial_capital)

\* C2: with a positive initial capital, from the first trade day on exactly
\* one of usd_balance and btc_held is zero in every snapshot, whatever the
\* thresholds (buy_threshold >= sell_threshold included).
Exclusivity ==
    (Ran /\ initial_capital > 0 /\ FirstTradeDay > 0) =>
        \A i \in FirstTradeDay..Len(Snapshots) :
            (Snapshots[i].usd_balance = Zero) # (Snapshots[i].btc_held = Zero)

\* a run with buy_threshold >= sell_threshold that bought and later sold
ExclusivityWitness ==
    /\ Ran
    /\ initial_capital > 0
    /\ buy_threshold >= sell_threshold
    /\ \E i, j \in DOMAIN Snapshots :
          /\ i < j
          /\ Snapshots[i].action = "Buy"
          /\ Snapshots[j].action = "Sell"
          /\ Snapshots[j].usd_balance # Zero

\* the balances carried into day i
UsdBefore(i) == IF i = 1 THEN Float(initial_capital) ELSE Snapshots[i - 1].usd_balance

BtcBefore(i) == IF i = 1 THEN Zero ELSE Snapshots[i - 1].btc_held

\* C9: one snapshot per input point, in ascending date order whatever the
\* caller's order; each day's action is BUY iff sentiment <= buy_threshold and
\* the carried usd_balance > 0, otherwise SELL iff sentiment >= sell_threshold
\* and the carried btc_balance > 0, otherwise HOLD with both balances
\* unchanged; and no day has more than one trade record.
OneActionPerDayInDateOrder ==
    Ran =>
        /\ Len(Snapshots) = Len(df.rows)
        /\ {<<Snapshots[i].date, Snapshots[i].price, Snapshots[i].fng_value>> :
                i \in DOMAIN Snapshots}
             = {<<df.rows[i].date, df.rows[i].price, df.rows[i].fng_value>> :
                i \in DOMAIN df.rows}
        /\ \A i \in 1..(Len(Snapshots) - 1) :
               Ordinal(Snapshots[i].date) < Ordinal(Snapshots[i + 1].date)
        /\ \A i \in DOMAIN Snapshots :
               LET r == Snapshots[i]
                   buys == r.fng_value <= buy_threshold /\ UsdBefore(i)[1] > 0
                   sells == r.fng_value >= sell_threshold /\ BtcBefore(i)[1] > 0
               IN  /\ (r.action = "Buy") = buys
                   /\ (r.action = "Sell") = (~buys /\ sells)
                   /\ (r.action = "Hold") = (~buys /\ ~sells)
                   /\ r.action = "Hold" =>
                          /\ r.usd_balance = UsdBefore(i)
                          /\ r.btc_held = BtcBefore(i)
                   /\ Cardinality({k \in DOMAIN TradeLog : TradeLog[k].date = r.date})
                         = IF r.action = "Hold" THEN 0 ELSE 1

\* a caller's series that is not in date order, with a traded day that meets
\* both threshold conditions
OneActionWitness ==
    /\ Ran
    /\ \E i, j \in DOMAIN df.rows :
          i < j /\ Ordinal(df.rows[i].date) > Ordinal(df.rows[j].date)
    /\ \E i \in DOMAIN Snapshots :
          /\ Snapshots[i].fng_value <= buy_threshold
          /\ Snapshots[i].fng_value >= sell_threshold
          /\ Snapshots[i].action = "Sell"

\* C10: with a positive initial capital the trade log, in date order, starts
\* with a BUY and alternates BUY, SELL, BUY, ...; so the BUYs outnumber the
\* SELLs by 0 or 1 and the SELL records count the completed round trips.
TradesAlternate ==
    (Ran /\ initial_capital > 0) =>
        /\ \A k \in DOMAIN TradeLog :
               TradeLog[k].action = IF k % 2 = 1 THEN "BUY" ELSE "SELL"
        /\ \A k \in 1..(Len(TradeLog) - 1) :
               Ordinal(TradeLog[k].date) < Ordinal(TradeLog[k + 1].date)
        /\ Cardinality({k \in DOMAIN TradeLog : TradeLog[k].action = "SELL"})
              = Len(TradeLog) \div 2

\* a run that bought, sold and bought again
TradesAlternateWitness ==
    /\ Ran
    /\ initial_capital > 0
    /\ Len(TradeLog) = 3
    /\ TradeLog[3].action = "BUY"

---------------------------------------------------------------------------
(* Properties of the four functions on the client's table (checked under Spec) *)

\* the client's table with its year column, whether or not a call has added it
Table == AssignYear(df)

\* the exact ROI, in percent, of a fresh run on a frame with thresholds (b, s)
ExactROI(frame, b, s) == CellROI(run_backtest(frame, initial_capital, b, s)[1].rows,
                                 initial_capital)

\* C3: on an empty series no call ends in an error, and every call returns an
\* empty result.
EmptySeriesNoError ==
    df.rows = <<>> =>
        \A r \in {stats_df, trades_df, yearly_df, multi_start_df, opt_df} :
            r.status # "raised" /\ r.value.rows = <<>>

\* C4: for each year, optimize_thresholds returns the maximum over the 24 grid
\* pairs of the ROI of a fresh run on that year's points, and the first pair,
\* in grid order, that attains it.
OptimizerReturnsMaxROI ==
    opt_df.status = "returned" =>
        \A i \in DOMAIN opt_df.value.rows :
            LET row == opt_df.value.rows[i]
                grp == YearGroup(Table, row.year)
                roi(k) == ExactROI(grp, Grid[k][1], Grid[k][2])
            IN  \E k \in DOMAIN Grid :
                  /\ row.best_buy_threshold = Grid[k][1]
                  /\ row.best_sell_threshold = Grid[k][2]
                  /\ row.max_roi = roi(k)
                  /\ \A j \in DOMAIN Grid : ~RGt(roi(j), roi(k))
                  /\ \A j \in 1..(k - 1) : RLt(roi(j), roi(k))

\* what optimize_thresholds does return: the first maximal pair of the grid,
\* with its ROI rounded to two decimals
OptimizerReturnsRoundedMaxROI ==
    opt_df.status = "returned" =>
        /\ Len(Grid) = 24
        /\ \A i \in DOMAIN opt_df.value.rows :
            LET row == opt_df.value.rows[i]
                grp == YearGroup(Table, row.year)
                roi(k) == ExactROI(grp, Grid[k][1], Grid[k][2])
            IN  \E k \in DOMAIN Grid :
                  /\ row.best_buy_threshold = Grid[k][1]
                  /\ row.best_sell_threshold = Grid[k][2]
                  /\ row.max_roi = Round2(roi(k))
                  /\ \A j \in DOMAIN Grid : ~RGt(roi(j), roi(k))
                  /\ \A j \in 1..(k - 1) : RLt(roi(j), roi(k))

\* C5: with a positive capital, run_multi_start_analysis returns one result
\* per distinct year of the series, in ascending year order, each with the
\* benefit of a fresh run on the points of that year and later.
MultiStartOneResultPerYear ==
    (multi_start_df.status # "not_called" /\ initial_capital > 0) =>
        LET years == YearsOf(Table.rows)
            res == multi_start_df.value.rows
        IN  /\ multi_start_df.status = "returned"
            /\ Len(res) = Len(years)
            /\ \A i \in DOMAIN res :
                  LET stats == run_backtest(SubsetFrom(Table, years[i]), initial_capital,
                                            buy_threshold, sell_threshold)[1].rows
                  IN  /\ res[i].start_year = years[i]
                      /\ res[i].beneficio
                           = RSub(stats[Len(stats)].equity, Float(initial_capital))

\* the snapshots of one year, in date order
YearSnapshots(year) == GroupOf(AssignYear(stats_df.value).rows, year)

\* C6: with a positive capital, calculate_yearly_metrics yields one row per
\* year of the snapshots, year ascending; a row's start and end equity are the
\* equity of the year's first and last snapshot, and its trades count is the
\* number of the year's snapshots that are not HOLD, which is the number of
\* trade records of that year.
YearlyRowsMatchSnapshots ==
    (yearly_df.status # "not_called" /\ initial_capital > 0 /\ Snapshots # <<>>) =>
        LET years == YearsOf(AssignYear(stats_df.value).rows)
            res == yearly_df.value.rows
        IN  /\ yearly_df.status = "returned"
            /\ Len(res) = Len(years)
            /\ \A i \in DOMAIN res :
                  LET g == YearSnapshots(years[i])
                  IN  /\ res[i].year = years[i]
                      /\ res[i].starting_equity = g[1].equity
                      /\ res[i].ending_equity = g[Len(g)].equity
                      /\ res[i].trades
                           = Cardinality({k \in DOMAIN g : g[k].action # "Hold"})
                      /\ res[i].trades
                           = Cardinality({k \in DOMAIN TradeLog :
                                             Year(TradeLog[k].date) = years[i]})

InputsUnchanged ==
    [][/\ df' = df
       /\ stats_df.status = "returned" => stats_df'.value = stats_df.value]_vars

=============================================================================
